---- MODULE Spec2Model ----
(***************************************************************************)
(* FilmleAPI: the request handlers of the three revisions of the server    *)
(* (server.js, and the two unnamed revisions part_000 and part_001), one   *)
(* request at a time.  A step of the model is the code between two awaits  *)
(* of a handler; the calendar table and the metadata service (TheMovieDB)  *)
(* are the environment and answer nondeterministically.                    *)
(*                                                                         *)
(* Strings that the code takes apart (dates, error messages) are token     *)
(* sequences, so that split('T') and includes(..) are computed.            *)
(* The display columns quote_en, quote_pl, description are copied through  *)
(* by /api/mystery_movie and are left out.                                 *)
(***************************************************************************)
EXTENDS Integers, Sequences, FiniteSets, TLC

\* Largest number of rows of the calendar table.
MaxRows == 2

Day1 == "2024-01-15"
Day2 == "2024-01-16"
Days == {Day1, Day2}

(***************************************************************************)
(* Values of the `date` column as the database client hands them over.     *)
(* k is the JavaScript type; s is the string (k = "string") or the string  *)
(* toISOString() gives for it (k = "number"); k = "invalid" is a non-string *)
(* value that is no valid time, for which toISOString() throws.            *)
(***************************************************************************)
NullDate == [k |-> "null", s |-> <<>>]
UndefDate == [k |-> "undefined", s |-> <<>>]
StrDate(d) == [k |-> "string", s |-> <<d>>]
IsoDate(d) == [k |-> "string", s |-> <<d, "T", "00:00:00+00:00">>]
NumDate(d) == [k |-> "number", s |-> <<d, "T", "00:00:00.000Z">>]
BadDate == [k |-> "invalid", s |-> <<>>]
DatePool == {StrDate(Day1), StrDate(Day2), IsoDate(Day1), NumDate(Day1), BadDate, NullDate}

\* s.split('T')[0]
SplitT(s) ==
  LET ts == {i \in 1..Len(s) : s[i] = "T"}
  IN IF ts = {} THEN s
     ELSE SubSeq(s, 1, (CHOOSE i \in ts : \A j \in ts : i <= j) - 1)

\* new Date().toISOString().split('T')[0]
CurrentDate(day) == SplitT(<<day, "T", "12:00:00.000Z">>)

(***************************************************************************)
(* Rows of the calendar table.  A column the table does not have reads as  *)
(* "undefined"; "null", "0" (the number 0) and "" are the falsy values a   *)
(* column can hold.                                                        *)
(***************************************************************************)
IdFields == <<"movie_id", "movieId", "movieid", "movie">>
IdFieldSet == {IdFields[i] : i \in 1..Len(IdFields)}
FieldVals == [f \in IdFieldSet |->
  CASE f = "movie_id" -> {"null", "550"}
    [] f = "movieId" -> {"0", "551"}
    [] f = "movieid" -> {"", "552"}
    [] f = "movie" -> {"null", "553"}]
AnyVal == UNION {FieldVals[f] : f \in IdFieldSet} \cup {"undefined"}
ColumnSets == {{}, {"movie_id"}, {"movie"}, {"movie_id", "movie"}, {"movieId", "movieid"}}
\* !!value / Boolean(value)
Truthy(v) == v \notin {"undefined", "null", "0", ""}

\* Rows of a table with the movie-id columns cols.  The falsy column values are
\* paired with the date of Day1 that the equality query finds.
RowsOf(cols) ==
  {r \in [date : DatePool, movie_id : AnyVal, movieId : AnyVal, movieid : AnyVal, movie : AnyVal] :
     /\ \A f \in IdFieldSet : IF f \in cols THEN r[f] \in FieldVals[f] ELSE r[f] = "undefined"
     /\ (r.date = StrDate(Day1) \/ (\A f \in cols : Truthy(r[f])))}
TablesOf(cols) == UNION {[1..n -> RowsOf(cols)] : n \in 0..MaxRows}

\* Keys with the bug of listing the recognized column names, not the entry's own
Keys_Recognized(row) == {"date"} \cup IdFieldSet

\* Object.keys(data)
Keys(row) == (IF row.date.k = "undefined" THEN {} ELSE {"date"}) \cup {f \in IdFieldSet : row[f] # "undefined"}

(***************************************************************************)
(* Errors of the database client: null is <<>>, an error is its message.   *)
(***************************************************************************)
NoError == <<>>
MsgNoRelation(tbl) == <<"relation", tbl, "does not exist">>
MsgNoColumn(col) == <<"column", col, "does not exist">>
MsgPermission == <<"permission denied for", "relation">>
MsgFetch == <<"fetch failed">>
MsgMultiple == <<"JSON object requested, multiple (or no) rows returned">>
Failures == {NoError, MsgFetch, MsgPermission}
\* message.includes(word)
Includes(msg, word) == \E i \in 1..Len(msg) : msg[i] = word

Routes == {"mystery_movie", "mystery_movie_v0", "api_mystery_movie", "api_search", "api_movie"}
MysteryRoutes == {"mystery_movie", "mystery_movie_v0", "api_mystery_movie"}
Queries == {"undefined", "", "batman", "alien"}
MovieParams == {"550", "999"}
CallNames == {"details", "credits", "search"}

NoExc == [caught |-> FALSE, hasResponse |-> FALSE, status |-> 0, status_message |-> <<>>, message |-> <<>>]
Exc(msg) == [NoExc EXCEPT !.caught = TRUE, !.message = msg]
\* what axios rejects with for a call that ended c
AxiosError(c) ==
  IF c.st = "http"
  THEN [caught |-> TRUE, hasResponse |-> TRUE, status |-> c.status,
        status_message |-> c.status_message,
        message |-> <<"Request failed with status code", ToString(c.status)>>]
  ELSE Exc(<<"Network Error">>)

IdleCall == [st |-> "idle", arg |-> "", status |-> 0, status_message |-> <<>>, seq |-> 0]
CallOutcomes ==
  {[st |-> "ok", status |-> 200, status_message |-> <<>>]}
  \cup {[st |-> "net", status |-> 0, status_message |-> <<>>]}
  \cup {[st |-> "http", status |-> 404,
          status_message |-> <<"The resource you requested could not be found.">>]}
  \cup {[st |-> "http", status |-> 503, status_message |-> <<>>]}

\* search pages the metadata service may answer with
SearchPayloads ==
  {[results |-> <<>>, total_results |-> 0, page |-> 1, total_pages |-> 1],
   [results |-> <<"m1", "m2">>, total_results |-> 2, page |-> 1, total_pages |-> 1],
   [results |-> <<"m1">>, total_results |-> 41, page |-> 1, total_pages |-> 3]}
NoSearch == [results |-> <<>>, total_results |-> -1, page |-> -1, total_pages |-> -1]

NoMovie == [id |-> "", parts |-> {}]
NoResp == [status |-> 0, error |-> "", details |-> <<>>, date |-> <<>>, movie |-> NoMovie,
           availableFields |-> {}, searchedDate |-> <<>>, totalEntries |-> 0, query |-> "",
           search |-> NoSearch]

VARIABLES
  route,      \* the route of the request being served
  pc,         \* where its handler stands
  now,        \* the server clock's day
  query,      \* req.query.query
  param,      \* req.params.movie_id
  tableName,  \* the casing under which the calendar table exists
  columns,    \* the movie-id columns the table has
  table,      \* its rows
  data,       \* the handler's `data`: <<>> is null, <<row>> a row
  error,      \* the handler's `error`
  movieId,    \* the handler's `movieId`
  queries,    \* the database queries issued, in order, with their outcome
  calls,      \* the calls to the metadata service
  nseq,       \* how many of them have completed
  fetchSt,    \* fetchMovieDetails: idle, awaiting, resolved, rejected
  fetchRes,   \* what it returned
  thrown,     \* the exception the handler's catch block received
  upstream,   \* the search page the metadata service answered with
  resp,       \* the response sent
  sent        \* how many responses were sent

vars == <<route, pc, now, query, param, tableName, columns, table, data, error, movieId,
          queries, calls, nseq, fetchSt, fetchRes, thrown, upstream, resp, sent>>

reqVars == <<route, now, query, param, tableName, columns, table>>

Init ==
  /\ route = "none"
  /\ pc = "idle"
  /\ now = Day1
  /\ query = "undefined"
  /\ param = ""
  /\ tableName = "calendar"
  /\ columns = {}
  /\ table = <<>>
  /\ data = <<>>
  /\ error = NoError
  /\ movieId = "undefined"
  /\ queries = <<>>
  /\ calls = [c \in CallNames |-> IdleCall]
  /\ nseq = 0
  /\ fetchSt = "idle"
  /\ fetchRes = NoMovie
  /\ thrown = NoExc
  /\ upstream = NoSearch
  /\ resp = NoResp
  /\ sent = 0


(***************************************************************************)
(* The database client.  A query fails when the transport or the           *)
(* permissions fail (fail, chosen by the environment), when no table of    *)
(* that name exists, or when the selected column does not exist.           *)
(***************************************************************************)
QueryError(tbl, sel, fail) ==
  IF fail # NoError THEN fail
  ELSE IF tbl # tableName THEN MsgNoRelation(tbl)
  ELSE IF sel # "*" /\ sel \notin columns THEN MsgNoColumn(sel)
  ELSE NoError

\* the database's own date = 'YYYY-MM-DD' comparison
DbEq(row, cur) == row.date.k = "string" /\ row.date.s = cur

\* select(sel) of one row
Project(row, sel) ==
  IF sel = "*" THEN row
  ELSE [date |-> UndefDate, movie_id |-> "undefined", movieId |-> "undefined",
        movieid |-> "undefined", movie |-> row.movie]

\* from(tbl).select(sel).eq('date', cur).maybeSingle()
MaybeSingle(tbl, sel, cur, fail) ==
  LET e == QueryError(tbl, sel, fail)
      m == {i \in 1..Len(table) : DbEq(table[i], cur)}
  IN IF e # NoError THEN [data |-> <<>>, error |-> e]
     ELSE IF m = {} THEN [data |-> <<>>, error |-> NoError]
     ELSE IF Cardinality(m) = 1 THEN [data |-> <<Project(table[CHOOSE i \in m : TRUE], sel)>>, error |-> NoError]
     ELSE [data |-> <<>>, error |-> MsgMultiple]

\* from(tbl).select('*')
SelectAll(tbl, fail) ==
  LET e == QueryError(tbl, "*", fail)
  IN IF e # NoError THEN [data |-> <<>>, error |-> e] ELSE [data |-> table, error |-> NoError]

Q(name, tbl) == [q |-> name, tbl |-> tbl, res |-> "pending", err |-> NoError]
\* the last query issued has returned r
Returned(r) ==
  [queries EXCEPT ![Len(queries)].res =
                    IF r.error # NoError THEN "error" ELSE IF r.data = <<>> THEN "none" ELSE "row",
                  ![Len(queries)].err = r.error]

(***************************************************************************)
(* Responses.                                                              *)
(***************************************************************************)
Send(r) ==
  /\ resp' = r
  /\ sent' = sent + 1
  /\ pc' = "done"

DatabaseError(e) == [NoResp EXCEPT !.status = 500, !.error = "Database error", !.details = e]
NotFound == [NoResp EXCEPT !.status = 404, !.error = "No movie found for today"]

\* CatchResp with the bug of answering every failure with the generic 500
CatchResp_Always500(e, failText) ==
  [NoResp EXCEPT !.status = 500, !.error = "Internal server error", !.details = e.message]

\* the catch block of a handler, given what was thrown
CatchResp(e, failText) ==
  IF e.hasResponse
  THEN [NoResp EXCEPT !.status = e.status, !.error = failText,
          !.details = IF e.status_message # <<>> THEN e.status_message ELSE e.message]
  ELSE [NoResp EXCEPT !.status = 500, !.error = "Internal server error", !.details = e.message]

\* Catch with the bug of throwing again instead of answering
Catch_Rethrow(e, failText) ==
  /\ thrown' = e
  /\ pc' = "failed"
  /\ UNCHANGED <<resp, sent>>

Catch(e, failText) ==
  /\ thrown' = e
  /\ Send(CatchResp(e, failText))

FetchFailed == "Failed to fetch movie from TheMovieDB"
SearchFailed == "Failed to search movies from TheMovieDB"

Pending(arg) == [IdleCall EXCEPT !.st = "pending", !.arg = arg]
Completed(c, o) ==
  [calls EXCEPT ![c].st = o.st, ![c].status = o.status,
                ![c].status_message = o.status_message, ![c].seq = nseq + 1]
\* the movie the metadata service describes under /movie/{id}
TmdbMovie(id) == [id |-> id, parts |-> {"details"}]

\* a request for one of the mystery-movie routes arrives
Arrive(r) ==
  /\ pc = "idle"
  /\ \E tn \in {"calendar", "Calendar"}, cols \in ColumnSets, d \in Days :
       \E t \in TablesOf(cols) :
         /\ route' = r
         /\ now' = d
         /\ tableName' = tn
         /\ columns' = cols
         /\ table' = t
  /\ pc' = "await_primary"
  /\ queries' = <<Q("primary", "calendar")>>
  /\ UNCHANGED <<query, param, data, error, movieId, calls, nseq, fetchSt, fetchRes,
                 thrown, upstream, resp, sent>>

(***************************************************************************)
(* server.js: GET /mystery_movie                                           *)
(***************************************************************************)
\* ExtractMovieId with the bug of trying `movie` first
ExtractMovieId_MovieFirst(row) ==
  IF Truthy(row.movie) THEN row.movie
  ELSE IF Truthy(row.movie_id) THEN row.movie_id
  ELSE IF Truthy(row.movieId) THEN row.movieId
  ELSE row.movieid

\* data.movie_id || data.movieId || data.movieid || data.movie
ExtractMovieId(row) ==
  IF Truthy(row.movie_id) THEN row.movie_id
  ELSE IF Truthy(row.movieId) THEN row.movieId
  ELSE IF Truthy(row.movieid) THEN row.movieid
  ELSE row.movie

\* Find with the bug of taking the first row that has a date, whatever the date
Find_AnyDate(rows, i, cur) ==
  LET dated == {j \in i..Len(rows) : rows[j].date.k \notin {"null", "undefined"}}
  IN IF dated = {} THEN [threw |-> FALSE, data |-> <<>>]
     ELSE [threw |-> FALSE, data |-> <<rows[CHOOSE j \in dated : \A k \in dated : j <= k]>>]

\* allData.find(entry => ...), from row i on
RECURSIVE Find(_, _, _)
Find(rows, i, cur) ==
  IF i > Len(rows) THEN [threw |-> FALSE, data |-> <<>>]
  ELSE LET entryDate == rows[i].date
       IN IF entryDate.k \in {"null", "undefined"} THEN Find(rows, i + 1, cur)
          ELSE IF entryDate.k = "invalid" THEN [threw |-> TRUE, data |-> <<>>]
          ELSE IF SplitT(entryDate.s) = cur THEN [threw |-> FALSE, data |-> <<rows[i]>>]
          ELSE Find(rows, i + 1, cur)

\* lines 131-174, with `data` = d, `error` = e and the queries so far qs
Line131(d, e, qs) ==
  IF e # NoError
  THEN /\ Send(DatabaseError(e))
       /\ queries' = qs
       /\ UNCHANGED <<movieId, calls, thrown>>
  ELSE IF d = <<>>
  THEN /\ pc' = "await_debug"
       /\ queries' = Append(qs, Q("debug", "calendar"))
       /\ UNCHANGED <<movieId, calls, thrown, resp, sent>>
  ELSE LET id == ExtractMovieId(d[1])
       IN /\ movieId' = id
          /\ queries' = qs
          /\ IF ~Truthy(id)
             THEN /\ Send([NoResp EXCEPT !.status = 500, !.error = "Movie ID column not found",
                                         !.availableFields = Keys(d[1])])
                  /\ UNCHANGED <<calls, thrown>>
             ELSE /\ calls' = [calls EXCEPT !.details = Pending(id)]
                  /\ pc' = "await_tmdb"
                  /\ UNCHANGED <<thrown, resp, sent>>

\* ScanNeeded with the bug of scanning after an error too
ScanNeeded_IgnoreError(d, e) == d = <<>>

\* whether lines 93-129 scan the table
ScanNeeded(d, e) == d = <<>> /\ e = NoError

\* lines 92 onwards
Line93(d, e, qs) ==
  /\ data' = d
  /\ error' = e
  /\ IF ScanNeeded(d, e)
     THEN /\ pc' = "await_scan"
          /\ queries' = Append(qs, Q("scan", "calendar"))
          /\ UNCHANGED <<movieId, calls, thrown, resp, sent>>
     ELSE Line131(d, e, qs)

\* whether line 80 retries under the other casing
RetryNeeded(e) == e # NoError /\ (Includes(e, "relation") \/ Includes(e, "does not exist"))

GetMysteryMovie == Arrive("mystery_movie")

GetMysteryMovie_Primary ==
  /\ pc = "await_primary"
  /\ route = "mystery_movie"
  /\ \E fail \in Failures :
       LET r == MaybeSingle("calendar", "*", CurrentDate(now), fail)
       IN IF RetryNeeded(r.error)
          THEN /\ data' = r.data
               /\ error' = r.error
               /\ pc' = "await_retry"
               /\ queries' = Append(Returned(r), Q("retry", "Calendar"))
               /\ UNCHANGED <<movieId, calls, thrown, resp, sent>>
          ELSE Line93(r.data, r.error, Returned(r))
  /\ UNCHANGED <<reqVars, nseq, fetchSt, fetchRes, upstream>>

GetMysteryMovie_Retry ==
  /\ pc = "await_retry"
  /\ \E fail \in Failures :
       LET r2 == MaybeSingle("Calendar", "*", CurrentDate(now), fail)
       IN IF r2.error = NoError
          THEN Line93(r2.data, NoError, Returned(r2))
          ELSE Line93(data, error, Returned(r2))
  /\ UNCHANGED <<reqVars, nseq, fetchSt, fetchRes, upstream>>

GetMysteryMovie_Scan ==
  /\ pc = "await_scan"
  /\ \E fail \in Failures :
       LET r == SelectAll("calendar", fail)
           f == Find(r.data, 1, CurrentDate(now))
           qs == Returned(r)
       IN IF r.error # NoError
          THEN /\ Send(DatabaseError(r.error))
               /\ queries' = qs
               /\ UNCHANGED <<data, error, movieId, calls, thrown>>
          ELSE IF f.threw
          THEN /\ Catch(Exc(<<"Invalid time value">>), FetchFailed)
               /\ queries' = qs
               /\ UNCHANGED <<data, error, movieId, calls>>
          ELSE /\ data' = f.data
               /\ error' = error
               /\ Line131(f.data, error, qs)
  /\ UNCHANGED <<reqVars, nseq, fetchSt, fetchRes, upstream>>

GetMysteryMovie_Debug ==
  /\ pc = "await_debug"
  /\ \E fail \in Failures :
       LET r == SelectAll("calendar", fail)
           n == IF Len(r.data) < 10 THEN Len(r.data) ELSE 10
       IN /\ Send([NotFound EXCEPT !.searchedDate = CurrentDate(now), !.totalEntries = n])
          /\ queries' = Returned(r)
  /\ UNCHANGED <<reqVars, data, error, movieId, calls, nseq, fetchSt, fetchRes, thrown, upstream>>

GetMysteryMovie_Tmdb ==
  /\ pc = "await_tmdb"
  /\ route = "mystery_movie"
  /\ \E o \in CallOutcomes :
       /\ calls' = Completed("details", o)
       /\ IF o.st = "ok"
          THEN /\ Send([NoResp EXCEPT !.status = 200, !.date = CurrentDate(now),
                                      !.movie = TmdbMovie(calls.details.arg)])
               /\ UNCHANGED thrown
          ELSE Catch(AxiosError(o), FetchFailed)
  /\ nseq' = nseq + 1
  /\ UNCHANGED <<reqVars, data, error, movieId, queries, fetchSt, fetchRes, upstream>>

(***************************************************************************)
(* part_000: GET /mystery_movie, the first revision                        *)
(***************************************************************************)
\* NoMovieResp with the bug of not testing data.movie
NoMovieResp_NoIdCheck(d, e) ==
  IF e # NoError THEN DatabaseError(e)
  ELSE IF d = <<>> THEN NotFound
  ELSE NoResp

\* lines 52-73 (and lines 78-94 of part_001): the answer when no movie is called for
NoMovieResp(d, e) ==
  IF e # NoError THEN DatabaseError(e)
  ELSE IF d = <<>> \/ ~Truthy(d[1].movie) THEN NotFound
  ELSE NoResp

GetMysteryMovieV0 == Arrive("mystery_movie_v0")

GetMysteryMovieV0_Primary ==
  /\ pc = "await_primary"
  /\ route = "mystery_movie_v0"
  /\ \E fail \in Failures :
       LET r == MaybeSingle("calendar", "movie", CurrentDate(now), fail)
       IN /\ data' = r.data
          /\ error' = r.error
          /\ queries' = Returned(r)
          /\ IF NoMovieResp(r.data, r.error) # NoResp
             THEN /\ Send(NoMovieResp(r.data, r.error))
                  /\ UNCHANGED <<movieId, calls>>
             ELSE /\ movieId' = r.data[1].movie
                  /\ calls' = [calls EXCEPT !.details = Pending(r.data[1].movie)]
                  /\ pc' = "await_tmdb"
                  /\ UNCHANGED <<resp, sent>>
  /\ UNCHANGED <<reqVars, nseq, fetchSt, fetchRes, thrown, upstream>>

GetMysteryMovieV0_Tmdb ==
  /\ pc = "await_tmdb"
  /\ route = "mystery_movie_v0"
  /\ \E o \in CallOutcomes :
       /\ calls' = Completed("details", o)
       /\ IF o.st = "ok"
          THEN /\ Send([NoResp EXCEPT !.status = 200, !.date = CurrentDate(now),
                                      !.movie = TmdbMovie(calls.details.arg)])
               /\ UNCHANGED thrown
          ELSE Catch(AxiosError(o), FetchFailed)
  /\ nseq' = nseq + 1
  /\ UNCHANGED <<reqVars, data, error, movieId, queries, fetchSt, fetchRes, upstream>>

(***************************************************************************)
(* part_001: fetchMovieDetails and the /api routes                         *)
(***************************************************************************)
\* PromiseAll with the bug of settling with the first call that completes
PromiseAll_First(cs) ==
  IF \E c \in {"details", "credits"} : cs[c].st \in {"http", "net"} THEN "rejected"
  ELSE IF \E c \in {"details", "credits"} : cs[c].st = "ok" THEN "resolved"
  ELSE "pending"

\* Promise.all over the two calls: pending, resolved or rejected
PromiseAll(cs) ==
  IF \E c \in {"details", "credits"} : cs[c].st \in {"http", "net"} THEN "rejected"
  ELSE IF \A c \in {"details", "credits"} : cs[c].st = "ok" THEN "resolved"
  ELSE "pending"

\* { ...movieResponse.data, cast: creditsResponse.data.cast, crew: creditsResponse.data.crew }
MovieDetails(cs) ==
  [id |-> cs.details.arg,
   parts |-> (IF cs.details.st = "ok" THEN {"details"} ELSE {})
             \cup (IF cs.credits.st = "ok" THEN {"cast", "crew"} ELSE {})]

\* fetchMovieDetails(id) up to its await: both calls are started
FetchStart(id) ==
  /\ calls' = [calls EXCEPT !.details = Pending(id), !.credits = Pending(id)]
  /\ fetchSt' = "awaiting"

\* the 200 answer of the route that awaited fetchMovieDetails
FetchedResp(movieDetails) ==
  IF route = "api_mystery_movie"
  THEN [NoResp EXCEPT !.status = 200, !.date = CurrentDate(now), !.movie = movieDetails]
  ELSE [NoResp EXCEPT !.status = 200, !.movie = movieDetails]

\* one of the two calls of fetchMovieDetails completes
FetchMovieDetails_Return(c) ==
  /\ c \in {"details", "credits"}
  /\ fetchSt # "idle"
  /\ calls[c].st = "pending"
  /\ \E o \in CallOutcomes :
       LET cs == Completed(c, o)
           p == PromiseAll(cs)
       IN /\ calls' = cs
          /\ IF fetchSt = "awaiting" /\ p = "rejected"
             THEN /\ fetchSt' = "rejected"
                  /\ Catch(AxiosError(o), FetchFailed)
                  /\ UNCHANGED fetchRes
             ELSE IF fetchSt = "awaiting" /\ p = "resolved"
             THEN /\ fetchSt' = "resolved"
                  /\ fetchRes' = MovieDetails(cs)
                  /\ Send(FetchedResp(MovieDetails(cs)))
                  /\ UNCHANGED thrown
             ELSE UNCHANGED <<fetchSt, fetchRes, thrown, resp, sent, pc>>
  /\ nseq' = nseq + 1
  /\ UNCHANGED <<reqVars, data, error, movieId, queries, upstream>>

ApiMysteryMovie == Arrive("api_mystery_movie")

ApiMysteryMovie_Primary ==
  /\ pc = "await_primary"
  /\ route = "api_mystery_movie"
  /\ \E fail \in Failures :
       LET r == MaybeSingle("calendar", "*", CurrentDate(now), fail)
       IN /\ data' = r.data
          /\ error' = r.error
          /\ queries' = Returned(r)
          /\ IF NoMovieResp(r.data, r.error) # NoResp
             THEN /\ Send(NoMovieResp(r.data, r.error))
                  /\ UNCHANGED <<movieId, calls, fetchSt>>
             ELSE /\ movieId' = r.data[1].movie
                  /\ FetchStart(r.data[1].movie)
                  /\ pc' = "await_fetch"
                  /\ UNCHANGED <<resp, sent>>
  /\ UNCHANGED <<reqVars, nseq, fetchRes, thrown, upstream>>

\* QueryMissing with the bug of letting the empty query through
QueryMissing_UndefinedOnly(q) == q = "undefined"

\* whether the search handler turns the request down (line 126)
QueryMissing(q) == q \in {"undefined", ""}

ApiSearch ==
  /\ pc = "idle"
  /\ \E q \in Queries :
       /\ query' = q
       /\ IF QueryMissing(q)
          THEN /\ Send([NoResp EXCEPT !.status = 400, !.error = "Query parameter is required"])
               /\ UNCHANGED calls
          ELSE /\ calls' = [calls EXCEPT !.search = Pending(q)]
               /\ pc' = "await_search"
               /\ UNCHANGED <<resp, sent>>
  /\ route' = "api_search"
  /\ UNCHANGED <<now, param, tableName, columns, table, data, error, movieId, queries, nseq,
                 fetchSt, fetchRes, thrown, upstream>>

\* lines 143-149: the answer built from the upstream page
SearchResp(q, page) ==
  [NoResp EXCEPT !.status = 200, !.query = q,
     !.search = [results |-> page.results, total_results |-> page.total_results,
                 page |-> page.page, total_pages |-> page.total_pages]]

ApiSearch_Return ==
  /\ pc = "await_search"
  /\ \E o \in CallOutcomes :
       /\ calls' = Completed("search", o)
       /\ IF o.st = "ok"
          THEN \E page \in SearchPayloads :
                 /\ upstream' = page
                 /\ Send(SearchResp(query, page))
                 /\ UNCHANGED thrown
          ELSE /\ Catch(AxiosError(o), SearchFailed)
               /\ UNCHANGED upstream
  /\ nseq' = nseq + 1
  /\ UNCHANGED <<reqVars, data, error, movieId, queries, fetchSt, fetchRes>>

ApiMovie ==
  /\ pc = "idle"
  /\ \E id \in MovieParams :
       /\ param' = id
       /\ movieId' = id
       /\ IF ~Truthy(id)
          THEN /\ Send([NoResp EXCEPT !.status = 400, !.error = "Movie ID is required"])
               /\ UNCHANGED <<calls, fetchSt>>
          ELSE /\ FetchStart(id)
               /\ pc' = "await_fetch"
               /\ UNCHANGED <<resp, sent>>
  /\ route' = "api_movie"
  /\ UNCHANGED <<now, query, tableName, columns, table, data, error, queries, nseq,
                 fetchRes, thrown, upstream>>

Next ==
  \/ GetMysteryMovie
  \/ GetMysteryMovie_Primary
  \/ GetMysteryMovie_Retry
  \/ GetMysteryMovie_Scan
  \/ GetMysteryMovie_Debug
  \/ GetMysteryMovie_Tmdb
  \/ GetMysteryMovieV0
  \/ GetMysteryMovieV0_Primary
  \/ GetMysteryMovieV0_Tmdb
  \/ ApiMysteryMovie
  \/ ApiMysteryMovie_Primary
  \/ FetchMovieDetails_Return("details")
  \/ FetchMovieDetails_Return("credits")
  \/ ApiSearch
  \/ ApiSearch_Return
  \/ ApiMovie

Spec == Init /\ [][Next]_vars


(***************************************************************************)
(* Properties                                                              *)
(***************************************************************************)
Done == pc = "done"
FetchCalls == {"details", "credits"}
Issued(name) == \E i \in 1..Len(queries) : queries[i].q = name
Outcome(name) == queries[CHOOSE i \in 1..Len(queries) : queries[i].q = name]
\* a query of the calendar lookup (not the diagnostic one of the 404 answer) failed
LookupFailed == \E i \in 1..Len(queries) : queries[i].q # "debug" /\ queries[i].res = "error"
NoCallIssued == \A c \in CallNames : calls[c].st = "idle"
Failed == {c \in CallNames : calls[c].st \in {"http", "net"}}
FirstFailed == CHOOSE c \in Failed : \A d \in Failed : calls[c].seq <= calls[d].seq
\* the rows the equality query matches today
TodayRows == {i \in 1..Len(table) : table[i].date.k = "string" /\ table[i].date.s = <<now>>}
\* no row is for today, however its date is stored
NoEntryToday ==
  \A i \in 1..Len(table) :
    ~(table[i].date.k \in {"string", "number"} /\ Len(table[i].date.s) > 0 /\ table[i].date.s[1] = now)
Present(row) == {i \in 1..Len(IdFields) : row[IdFields[i]] # "undefined"}
NonEmpty(row) == {i \in 1..Len(IdFields) : row[IdFields[i]] \notin {"undefined", "null", "0", ""}}
First(S) == CHOOSE i \in S : \A j \in S : i <= j

\* C1: on /api/mystery_movie, a date with exactly one matching calendar entry whose
\* identifier is carried by any of the recognized fields, with no database error
\* and no failing metadata call, is answered 200 with `date` the queried date and
\* `movie.id` the entry's identifier.
C1_ApiMysteryMovieResolves ==
  (/\ Done
   /\ route = "api_mystery_movie"
   /\ Cardinality(TodayRows) = 1
   /\ ~LookupFailed
   /\ Failed = {}
   /\ NonEmpty(table[First(TodayRows)]) # {})
  => LET row == table[First(TodayRows)]
     IN /\ resp.status = 200
        /\ resp.date = <<now>>
        /\ resp.movie.id = row[IdFields[First(NonEmpty(row))]]

\* C2: on every mystery-movie route, when every query of the lookup completed
\* without a database error, nothing was thrown and the lookup produced no row
\* for today (as it does whenever the table holds no entry for today), the
\* answer is 404 and no call to the metadata service was made.
C2_NoEntryIs404 ==
  (Done /\ route \in MysteryRoutes /\ ~LookupFailed /\ ~thrown.caught)
  => /\ NoEntryToday => data = <<>>
     /\ data = <<>> =>
          /\ resp.status = 404
          /\ resp.error = "No movie found for today"
          /\ NoCallIssued

\* C2 is reached through the full scan of a table that holds rows of other days.
C2_Witness ==
  /\ Done
  /\ route = "mystery_movie"
  /\ Issued("scan")
  /\ ~LookupFailed
  /\ Len(table) > 0
  /\ NoEntryToday
  /\ resp.status = 404

\* C3 as stated: on every mystery-movie route, an entry found for today that has
\* none of the fields movie_id, movieId, movieid, movie is answered 500 with the
\* list of the entry's field names.
C3_MissingIdIs500Everywhere ==
  (Done /\ route \in MysteryRoutes /\ data # <<>> /\ error = NoError /\ Present(data[1]) = {})
  => /\ resp.status = 500
     /\ resp.error = "Movie ID column not found"
     /\ resp.availableFields = {"date"}

\* C3, amended: such an entry is answered 500 with the list of its field names
\* by GET /mystery_movie of server.js, and 404 "No movie found for today" by
\* GET /api/mystery_movie; neither calls the metadata service.
C3_MissingIdByRoute ==
  (Done /\ data # <<>> /\ error = NoError /\ Present(data[1]) = {})
  => /\ route = "mystery_movie" =>
          /\ resp.status = 500
          /\ resp.error = "Movie ID column not found"
          /\ resp.availableFields = {"date"}
     /\ route = "api_mystery_movie" =>
          /\ resp.status = 404
          /\ resp.error = "No movie found for today"
     /\ NoCallIssued

C3_Witness ==
  /\ Done
  /\ route = "mystery_movie"
  /\ data # <<>>
  /\ error = NoError
  /\ Present(data[1]) = {}
  /\ resp.availableFields = {"date"}

\* C4 as stated: fetchMovieDetails returns, with a result or with an error, only
\* once neither of its two calls is pending.
C4_ReturnsAfterBoth ==
  fetchSt \in {"resolved", "rejected"} => \A c \in FetchCalls : calls[c].st # "pending"

\* C4, amended: the two calls are started together; fetchMovieDetails returns a
\* result only after both calls succeeded, and the result carries both payloads;
\* it fails as soon as one call fails, with that call's error, possibly while
\* the other call is still pending; it never returns a partial result.
C4_JoinOnSuccess ==
  /\ route \in {"api_mystery_movie", "api_movie"} =>
       /\ (calls.details.st = "idle") <=> (calls.credits.st = "idle")
       /\ (fetchSt = "idle") <=> (calls.details.st = "idle")
       /\ calls.details.arg = calls.credits.arg
  /\ fetchSt = "awaiting" => \A c \in FetchCalls : calls[c].st \in {"pending", "ok"}
  /\ fetchSt = "awaiting" => \E c \in FetchCalls : calls[c].st = "pending"
  /\ fetchSt = "resolved" =>
       /\ \A c \in FetchCalls : calls[c].st = "ok"
       /\ fetchRes.parts = {"details", "cast", "crew"}
       /\ resp.movie = fetchRes
  /\ fetchSt = "rejected" =>
       /\ Failed # {}
       /\ thrown = AxiosError(calls[FirstFailed])
       /\ fetchRes = NoMovie
       /\ resp.movie = NoMovie

\* fetchMovieDetails has failed while its other call is still pending.
C4_Witness ==
  /\ fetchSt = "rejected"
  /\ \E c \in FetchCalls : calls[c].st = "pending"

\* C5: GET /api/search without a query, or with an empty one, is answered 400
\* and calls the metadata service never; with a query, once the metadata
\* service has answered, the answer is 200 with `query` the input and results,
\* total_results, page, total_pages as the metadata service gave them.
C5_Search ==
  route = "api_search" =>
    /\ query \in {"undefined", ""} => Done /\ resp.status = 400 /\ NoCallIssued
    /\ query \notin {"undefined", ""} => calls.search.st # "idle" /\ calls.search.arg = query
    /\ calls.search.st = "ok" =>
         /\ Done
         /\ resp.status = 200
         /\ resp.query = query
         /\ resp.search = upstream
         /\ upstream \in SearchPayloads

C5_Witness ==
  /\ route = "api_search"
  /\ Done
  /\ resp.status = 200
  /\ resp.search.total_pages > 1
  /\ resp.query = "batman"

\* C6: when a call to the metadata service fails a handler, the answer has the
\* upstream status if the failure carries an upstream response, and is the
\* generic 500 only if it carries none.
C6_StatusPassthrough ==
  (Done /\ Failed # {})
  => LET c == calls[FirstFailed]
     IN /\ c.st = "http" =>
             /\ resp.status = c.status
             /\ resp.error \in {FetchFailed, SearchFailed}
        /\ c.st = "net" =>
             /\ resp.status = 500
             /\ resp.error = "Internal server error"
        /\ resp.error = "Internal server error" => ~thrown.hasResponse

C6_Witness ==
  /\ Done
  /\ route = "api_movie"
  /\ calls.credits.st = "http"
  /\ calls.credits.status = 503
  /\ calls.details.st = "ok"
  /\ resp.status = 503

\* C7 as stated: the full scan is issued only in a request whose primary query
\* succeeded and returned no row; the casing retry is issued only when the
\* primary query failed with a relation / does-not-exist error.
C7_ScanOnlyAfterPrimarySuccess ==
  /\ Issued("scan") => Outcome("primary").res = "none"
  /\ Issued("retry") =>
       /\ Outcome("primary").res = "error"
       /\ \E i \in 1..Len(Outcome("primary").err) :
            Outcome("primary").err[i] \in {"relation", "does not exist"}

\* C7, amended: the full scan is issued only when the lookup so far ended with no
\* error and no row: the primary query succeeded and returned no row, or it
\* failed, the casing retry was taken, succeeded and returned no row.  It is
\* never issued after a primary error that was not retried or whose retry
\* failed.  The casing retry is issued exactly when the primary query failed
\* with a message containing "relation" or "does not exist".
C7_ScanAfterEmptyLookup ==
  route = "mystery_movie" =>
    /\ Issued("scan") <=>
         \/ Outcome("primary").res = "none"
         \/ /\ Outcome("primary").res = "error"
            /\ Issued("retry")
            /\ Outcome("retry").res = "none"
    /\ Issued("retry") <=>
         /\ Outcome("primary").res = "error"
         /\ \E i \in 1..Len(Outcome("primary").err) :
              Outcome("primary").err[i] \in {"relation", "does not exist"}

\* the scan is issued in a request whose primary query failed
C7_Witness ==
  /\ Issued("scan")
  /\ Issued("retry")
  /\ Outcome("primary").res = "error"

\* C8 as stated: the identifier is the value of the first of movie_id, movieId,
\* movieid, movie that is present on the entry, and extraction fails exactly
\* when none of the four is present.
C8_FirstPresentField ==
  (route = "mystery_movie" /\ pc \in {"await_tmdb", "done"} /\ data # <<>> /\ error = NoError)
  => LET row == data[1]
     IN IF Present(row) = {}
        THEN resp.error = "Movie ID column not found"
        ELSE /\ movieId = row[IdFields[First(Present(row))]]
             /\ resp.error # "Movie ID column not found"

\* C8, amended: the identifier is the value of the first of the four fields that
\* holds a non-empty value (not null, 0 or ""), and extraction fails exactly
\* when none of the four holds one.
C8_FirstNonEmptyField ==
  (route = "mystery_movie" /\ pc \in {"await_tmdb", "done"} /\ data # <<>> /\ error = NoError)
  => LET row == data[1]
     IN IF NonEmpty(row) = {}
        THEN /\ resp.status = 500
             /\ resp.error = "Movie ID column not found"
             /\ resp.availableFields = {"date"} \cup {IdFields[i] : i \in Present(row)}
        ELSE /\ movieId = row[IdFields[First(NonEmpty(row))]]
             /\ calls.details.arg = movieId
             /\ resp.error # "Movie ID column not found"

\* movie_id is present but null, and the identifier comes from movie
C8_Witness ==
  /\ route = "mystery_movie"
  /\ data # <<>>
  /\ data[1].movie_id = "null"
  /\ movieId = "553"
  /\ resp.status = 200

\* C9: a handler sends exactly one response: never two, none only while an
\* outbound call it waits for is pending; an exception without an upstream
\* response is answered 500 with its message as details.
C9_ExactlyOneResponse ==
  /\ sent <= 1
  /\ Done <=> sent = 1
  /\ pc \in {"idle", "done", "await_primary", "await_retry", "await_scan", "await_debug",
             "await_tmdb", "await_fetch", "await_search"}
  /\ pc \in {"await_primary", "await_retry", "await_scan", "await_debug"} =>
       queries[Len(queries)].res = "pending"
  /\ pc = "await_tmdb" => calls.details.st = "pending"
  /\ pc = "await_search" => calls.search.st = "pending"
  /\ pc = "await_fetch" => \E c \in FetchCalls : calls[c].st = "pending"
  /\ (thrown.caught /\ ~thrown.hasResponse) =>
       /\ resp.status = 500
       /\ resp.details = thrown.message

\* the exception thrown while scanning the rows is answered
C9_Witness ==
  /\ Done
  /\ route = "mystery_movie"
  /\ thrown.message = <<"Invalid time value">>
  /\ resp.status = 500
  /\ sent = 1

\* C10: in a mystery-movie request a call to the metadata service is issued only
\* after the lookup ended without a database error with a non-empty identifier;
\* the database-error, not-found and missing-identifier answers come with no
\* call issued; the 200 answer comes only after the call(s) succeeded.
C10_LookupBeforeMetadata ==
  route \in MysteryRoutes =>
    /\ ~NoCallIssued =>
         /\ error = NoError
         /\ data # <<>>
         /\ movieId \notin {"undefined", "null", "0", ""}
         /\ \A i \in 1..Len(queries) : queries[i].res # "pending"
         /\ queries[Len(queries)].res = "row"
         /\ calls.details.arg = movieId
    /\ resp.error \in {"Database error", "No movie found for today", "Movie ID column not found"} =>
         NoCallIssued
    /\ resp.status = 200 =>
         /\ calls.details.st = "ok"
         /\ route = "api_mystery_movie" => calls.credits.st = "ok"

C10_Witness ==
  /\ route = "mystery_movie"
  /\ Issued("scan")
  /\ resp.status = 200

====
